---- MODULE Spec2Model ----
(***************************************************************************)
(* A model of mget.py: download a file in parts over http.                 *)
(*                                                                         *)
(* The main thread runs mget() -> is_range_supported() -> write_chunks()   *)
(* -> get_size() -> plan -> ThreadPoolExecutor -> reassembly.  The pool's   *)
(* worker threads run get_chunk().  The http server and the destination    *)
(* file are the environment: every response the server can give is a      *)
(* nondeterministic choice of the action that receives it.                 *)
(*                                                                         *)
(* Bytes are modelled as small integers; the remote file of length         *)
(* `remote` holds byte value k at offset k, so that any misplaced,          *)
(* missing or duplicated byte shows in the destination's content.          *)
(***************************************************************************)
EXTENDS Integers, Sequences, FiniteSets, TLC

\* ---------------------------------------------------------------- bounds
MaxSize      == 4    \* remote file sizes 0..MaxSize
MaxNegative  == 1    \* -c and -m values down to -MaxNegative are tried
MaxChunkSize == 2    \* largest -c value tried
MaxChunks    == 3    \* largest -m value tried
MaxDop       == 2    \* largest -p value tried

VARIABLES
    chunk_size,    \* -c
    max_chunks,    \* -m
    dop,           \* -p
    force,         \* -f
    remote,        \* length of the file on the server
    orig,          \* the destination file before the run
    file,          \* the destination file now
    pc,            \* position of the main thread
    error,         \* why the run failed ("none" while it has not)
    range_status,  \* status of the range probe's response (0: not received)
    head_resp,     \* the HEAD response get_size received (status 0: none)
    size,          \* write_chunks' local `size` (-1: not set)
    chunk_args,    \* write_chunks' local `chunk_args`
    ftr,           \* the futures, in submission order
    observed,      \* futures as_completed has yielded
    results,       \* write_chunks' local `results`
    sorted_parts,  \* what is left of sorted(parts) in mget's loop
    reqs,          \* every http request issued, in order
    cnns           \* open connections: 0 is the range probe's, t is future t's

config == <<chunk_size, max_chunks, dop, force, remote, orig>>
vars == <<chunk_size, max_chunks, dop, force, remote, orig, file, pc, error,
          range_status, head_resp, size, chunk_args, ftr, observed, results,
          sorted_parts, reqs, cnns>>

\* ------------------------------------------------------------ environment
Min(a, b) == IF a <= b THEN a ELSE b

Absent == [exists |-> FALSE, content |-> <<>>]

\* the remote file's bytes at offsets first..last (inclusive)
RemoteBytes(first, last) == [k \in 1..(last - first + 1) |-> first + k - 1]

\* body of a 206 answer to `Range: bytes=start-end`: the server clamps an
\* end at or past the file's length to the last byte
RangeBody(start, end) == RemoteBytes(start, Min(end, remote - 1))

\* body of an answer with the given status: 206 honours the range, 200 is
\* the whole file, anything else is an error page
ResponseBody(status, start, end) ==
    IF status = 206 THEN RangeBody(start, end)
    ELSE IF status = 200 THEN RemoteBytes(0, remote - 1)
    ELSE <<254>>

\* -------------------------------------------------------------- the plan
RECURSIVE RangeFrom(_, _, _)
RangeFrom(i, stop, step) ==
    IF (step > 0 /\ i < stop) \/ (step < 0 /\ i > stop)
    THEN <<i>> \o RangeFrom(i + step, stop, step)
    ELSE <<>>

\* range(0, stop, step), step # 0
PyRange(stop, step) == RangeFrom(0, stop, step)

\* s[:n]
PySliceTo(s, n) ==
    IF n >= 0 THEN SubSeq(s, 1, Min(n, Len(s)))
    ELSE SubSeq(s, 1, Len(s) + n)

get_chunk_args(i, sz, csize) == <<i, Min(i + csize - 1, sz), i>>

max_size(sz, csize, mchunks) == Min(sz, csize * mchunks + 10)

ChunkArgs(sz, csize, mchunks) ==
    LET offsets == PyRange(max_size(sz, csize, mchunks), csize)
        all == [k \in 1..Len(offsets) |-> get_chunk_args(offsets[k], sz, csize)]
    IN  PySliceTo(all, mchunks)

\* ------------------------------------------------------------ reassembly
RECURSIVE Insert(_, _)
Insert(p, s) ==
    IF s = <<>> THEN <<p>>
    ELSE IF p[1] <= s[1][1] THEN <<p>> \o s
    ELSE <<s[1]>> \o Insert(p, Tail(s))

RECURSIVE Sorted(_)
\* sorted(parts): ascending by the tuple's first item, the chunk's offset
Sorted(parts) ==
    IF parts = <<>> THEN <<>>
    ELSE Insert(parts[Len(parts)], Sorted(SubSeq(parts, 1, Len(parts) - 1)))

\* open(filename, 'wb') left out: the file is only ever opened for append
CreateEmpty_skipped(f) == f

CreateEmpty(f) == [exists |-> TRUE, content |-> <<>>]

\* the part written by two f.write calls
AppendTo_twice(f, part) == [exists |-> TRUE, content |-> f.content \o part \o part]

AppendTo(f, part) == [exists |-> TRUE, content |-> f.content \o part]

\* ------------------------------------------------------------- decisions
\* `if force and isfile(filename)`: the negation dropped
DestinationBlocked_negationDropped(frc, f) == frc /\ f.exists

DestinationBlocked(frc, f) == ~frc /\ f.exists

\* any success status taken for range support
IsRangeSupported_any2xx(status) == status \in {200, 206}

\* the probe's answer not looked at
IsRangeSupported_unchecked(status) == TRUE

IsRangeSupported(status) == status = 206

\* a pool that starts a thread per submitted future
WorkerFree_unbounded(running, workers) == TRUE

WorkerFree(running, workers) == Cardinality(running) < workers

\* a future's exception swallowed instead of re-raised
ResultRaises_swallowed(fut) == FALSE

ResultRaises(fut) == fut.st = "raised"

NoResponse == [status |-> 0, length |-> "none"]

\* get_size: how it ends on a HEAD response; exit(1) after the "File doesn't
\* exist on server" message, or int() raising on the Content-length header
SizeError(resp) ==
    IF resp.status # 200 THEN "SizeUnavailable"
    ELSE IF resp.length = "absent" THEN "TypeError"
    ELSE IF resp.length = "garbage" THEN "ValueError"
    ELSE "none"

Finished(fut) == fut.st \in {"ok", "raised"}

\* shutdown(wait=False): the exception leaves at once
PoolJoined_nowait(futures) == TRUE

\* a join that waits for successes only
PoolJoined_successesOnly(futures) == \A t \in 1..Len(futures) : futures[t].st = "ok"

PoolJoined(futures) == \A t \in 1..Len(futures) : Finished(futures[t])

\* the loop left after its first result, without waiting for the pool
AllObserved_firstOnly(seen, futures) == seen # {} \/ futures = <<>>

\* as_completed(ftr) is exhausted: it has yielded every future
AllObserved(seen, futures) == seen = 1..Len(futures)

\* cnn.close() after the return statement instead of in `finally`
CloseCnn_noFinally(open, t, raising) == IF raising THEN open ELSE open \ {t}

\* get_chunk's `finally: cnn.close()`, on return and on an exception alike
CloseCnn(open, t, raising) == open \ {t}

Running == {t \in 1..Len(ftr) : ftr[t].st = "running"}

Queued == {t \in 1..Len(ftr) : ftr[t].st = "queued"}

\* ------------------------------------------------------------------ Init
Init ==
    /\ chunk_size \in (-MaxNegative)..MaxChunkSize
    /\ max_chunks \in (-MaxNegative)..MaxChunks
    /\ dop \in 1..MaxDop
    /\ force \in BOOLEAN
    /\ remote \in 0..MaxSize
    /\ orig \in {Absent, [exists |-> TRUE, content |-> <<255>>]}
    /\ file = orig
    /\ pc = "start"
    /\ error = "none"
    /\ range_status = 0
    /\ head_resp = NoResponse
    /\ size = -1
    /\ chunk_args = <<>>
    /\ ftr = <<>>
    /\ observed = {}
    /\ results = <<>>
    /\ sorted_parts = <<>>
    /\ reqs = <<>>
    /\ cnns = {}

\* a failure answered by starting over
Fail_retry(why) == pc' = "start" /\ error' = why

\* exit(1), or an exception nobody catches: the run is over
Fail(why) == pc' = "failed" /\ error' = why

\* mget: resolve the filename, refuse to overwrite without -f
CheckDestination ==
    /\ pc = "start"
    /\ IF DestinationBlocked(force, file)
       THEN Fail("DestinationExists")
       ELSE pc' = "range" /\ error' = error
    /\ UNCHANGED <<config, file, range_status, head_resp, size, chunk_args, ftr, observed,
                   results, sorted_parts, reqs, cnns>>

\* mget: is_range_supported(); the probe's connection is never closed
RangeProbe ==
    /\ pc = "range"
    /\ reqs' = Append(reqs, <<"GET", "probe">>)
    /\ cnns' = cnns \cup {0}
    /\ \/ \E status \in {206, 200, 404} :
            /\ range_status' = status
            /\ IF IsRangeSupported(status)
               THEN pc' = "size" /\ error' = error
               ELSE Fail("RangeUnsupported")
       \/ /\ Fail("Exception")
          /\ range_status' = range_status
    /\ UNCHANGED <<config, file, head_resp, size, chunk_args, ftr, observed,
                   results, sorted_parts>>

\* write_chunks: size = get_size(urlParts)
SizeProbe ==
    /\ pc = "size"
    /\ reqs' = Append(reqs, <<"HEAD">>)
    /\ \/ \E status \in {200, 404}, length \in {"numeric", "absent", "garbage"} :
            /\ head_resp' = [status |-> status, length |-> length]
            /\ IF SizeError(head_resp') = "none"
               THEN pc' = "plan" /\ size' = remote /\ error' = error
               ELSE Fail(SizeError(head_resp')) /\ size' = size
       \/ /\ Fail("Exception")
          /\ head_resp' = head_resp
          /\ size' = size
    /\ UNCHANGED <<config, file, range_status, chunk_args, ftr, observed,
                   results, sorted_parts, cnns>>

\* write_chunks: build chunk_args; range() raises ValueError on a zero step
Plan ==
    /\ pc = "plan"
    /\ IF chunk_size = 0
       THEN Fail("ValueError") /\ chunk_args' = chunk_args
       ELSE /\ chunk_args' = ChunkArgs(size, chunk_size, max_chunks)
            /\ pc' = IF chunk_args' = <<>> THEN "collect" ELSE "submit"
            /\ error' = error
    /\ UNCHANGED <<config, file, range_status, head_resp, size, ftr, observed, results,
                   sorted_parts, reqs, cnns>>

\* write_chunks: pool.submit(get_chunk, arg), one arg after the other
Submit ==
    /\ pc = "submit"
    /\ ftr' = Append(ftr, [st |-> "queued", status |-> 0, content |-> <<>>])
    /\ pc' = IF Len(ftr') = Len(chunk_args) THEN "collect" ELSE "submit"
    /\ UNCHANGED <<config, file, error, range_status, head_resp, size, chunk_args,
                   observed, results, sorted_parts, reqs, cnns>>

\* a pool worker takes the oldest queued future and runs get_chunk up to
\* its request; a request that raises ends the call, closing the connection
StartFetch ==
    /\ Queued # {}
    /\ WorkerFree(Running, dop)
    /\ LET t == CHOOSE q \in Queued : \A r \in Queued : q <= r
       IN  /\ reqs' = Append(reqs, <<"GET", chunk_args[t][1], chunk_args[t][2]>>)
           /\ \/ /\ ftr' = [ftr EXCEPT ![t].st = "running"]
                 /\ cnns' = cnns \cup {t}
              \/ /\ ftr' = [ftr EXCEPT ![t].st = "raised"]
                 /\ cnns' = CloseCnn(cnns \cup {t}, t, TRUE)
    /\ UNCHANGED <<config, file, pc, error, range_status, head_resp, size, chunk_args,
                   observed, results, sorted_parts>>

\* get_chunk: the response arrives and is read, or reading raises; the
\* connection is closed either way
FinishFetch ==
    /\ \E t \in Running :
        \/ /\ \E status \in {206, 200, 503} :
                ftr' = [ftr EXCEPT ![t] =
                          [st |-> "ok", status |-> status,
                           content |-> ResponseBody(status, chunk_args[t][1],
                                                    chunk_args[t][2])]]
           /\ cnns' = CloseCnn(cnns, t, FALSE)
        \/ /\ ftr' = [ftr EXCEPT ![t].st = "raised"]
           /\ cnns' = CloseCnn(cnns, t, TRUE)
    /\ UNCHANGED <<config, file, pc, error, range_status, head_resp, size,
                   chunk_args, observed, results, sorted_parts, reqs>>

\* write_chunks: one turn of `for f in as_completed(ftr)`; f.result()
\* re-raises what get_chunk raised
Observe ==
    /\ pc = "collect"
    /\ \E t \in 1..Len(ftr) :
        /\ t \notin observed
        /\ Finished(ftr[t])
        /\ observed' = observed \cup {t}
        /\ IF ResultRaises(ftr[t])
           THEN /\ pc' = "shutdown"
                /\ error' = "FetchError"
                /\ results' = results
           ELSE /\ results' = Append(results, <<chunk_args[t][3], ftr[t].content>>)
                /\ pc' = pc
                /\ error' = error
    /\ UNCHANGED <<config, file, range_status, head_resp, size, chunk_args, ftr,
                   sorted_parts, reqs, cnns>>

\* write_chunks: as_completed is exhausted, the `with` block ends, return
ReturnResults ==
    /\ pc = "collect"
    /\ Len(ftr) = Len(chunk_args)
    /\ AllObserved(observed, ftr)
    /\ pc' = "truncate"
    /\ UNCHANGED <<config, file, error, range_status, head_resp, size, chunk_args, ftr,
                   observed, results, sorted_parts, reqs, cnns>>

\* write_chunks: the exception leaves the `with` block, whose exit is
\* pool.shutdown(wait=True); it then leaves mget
PoolShutdown ==
    /\ pc = "shutdown"
    /\ PoolJoined(ftr)
    /\ pc' = "failed"
    /\ UNCHANGED <<config, file, error, range_status, head_resp, size, chunk_args, ftr,
                   observed, results, sorted_parts, reqs, cnns>>

\* mget: open(filename, 'wb'), then evaluate sorted(parts)
Truncate ==
    /\ pc = "truncate"
    /\ file' = CreateEmpty(file)
    /\ sorted_parts' = Sorted(results)
    /\ pc' = "append"
    /\ UNCHANGED <<config, error, range_status, head_resp, size, chunk_args, ftr,
                   observed, results, reqs, cnns>>

\* mget: one turn of the reconstruction loop
AppendPart ==
    /\ pc = "append"
    /\ sorted_parts # <<>>
    /\ file' = AppendTo(file, sorted_parts[1][2])
    /\ sorted_parts' = Tail(sorted_parts)
    /\ UNCHANGED <<config, pc, error, range_status, head_resp, size, chunk_args, ftr,
                   observed, results, reqs, cnns>>

\* mget: print('done.')
Done ==
    /\ pc = "append"
    /\ sorted_parts = <<>>
    /\ pc' = "done"
    /\ UNCHANGED <<config, file, error, range_status, head_resp, size, chunk_args, ftr,
                   observed, results, sorted_parts, reqs, cnns>>

Next ==
    \/ CheckDestination
    \/ RangeProbe
    \/ SizeProbe
    \/ Plan
    \/ Submit
    \/ StartFetch
    \/ FinishFetch
    \/ Observe
    \/ ReturnResults
    \/ PoolShutdown
    \/ Truncate
    \/ AppendPart
    \/ Done

Spec == Init /\ [][Next]_vars

\* the main thread's steps
Main ==
    \/ CheckDestination
    \/ RangeProbe
    \/ SizeProbe
    \/ Plan
    \/ Submit
    \/ Observe
    \/ ReturnResults
    \/ PoolShutdown
    \/ Truncate
    \/ AppendPart
    \/ Done

\* Every request returns or fails, the main thread keeps running and a
\* free pool worker takes queued work.
FairSpec ==
    /\ Init /\ [][Next]_vars
    /\ WF_vars(Main)
    /\ WF_vars(StartFetch)
    /\ WF_vars(FinishFetch)

TypeOK ==
    /\ pc \in {"start", "range", "size", "plan", "submit", "collect",
               "shutdown", "truncate", "append", "done", "failed"}
    /\ Len(ftr) <= Len(chunk_args)
    /\ observed \subseteq 1..Len(ftr)

\* ---------------------------------------------------------------- claims
ValidConfig == chunk_size > 0 /\ max_chunks > 0

Planned == pc \in {"submit", "collect", "shutdown", "truncate", "append", "done"}

CoveredLength == Min(remote, chunk_size * max_chunks)

ChunkRequests == {k \in 1..Len(reqs) : Len(reqs[k]) = 3}

\* C1: for every plan and every order in which the fetches complete, a
\* download that ends successfully leaves a destination whose content is
\* exactly the source bytes [0, min(fileSize, chunkSize*maxChunks)).
C1_SuccessIsCoveredPrefix ==
    (ValidConfig /\ pc = "done") =>
        /\ file.exists
        /\ file.content = RemoteBytes(0, CoveredLength - 1)

\* The reassembly itself is sound: when every chunk response had status 206,
\* a finished download holds the covered prefix whatever the completion order.
SortedReassemblyWhenAll206 ==
    (ValidConfig /\ pc = "done" /\ \A t \in 1..Len(ftr) : ftr[t].status = 206) =>
        file.content = RemoteBytes(0, CoveredLength - 1)

\* C2: for positive fileSize, chunkSize, maxChunks the plan has
\* ceil(min(S, C*M) / C) specs, every spec but the last covers exactly C
\* bytes, and the last spec's inclusive end is min(S, C*M) - 1.
C2_PlanShape ==
    (ValidConfig /\ Planned /\ size > 0) =>
        LET n == Len(chunk_args)
            cov == Min(size, chunk_size * max_chunks)
        IN  /\ n = (cov + chunk_size - 1) \div chunk_size
            /\ \A k \in 1..(n - 1) :
                 chunk_args[k][2] - chunk_args[k][1] + 1 = chunk_size
            /\ chunk_args[n][2] = cov - 1

\* C3: when the destination exists and force is false the download fails
\* with DestinationExists, no http request is ever issued and the file
\* keeps its content.
C3_DestinationExistsBeforeNetwork ==
    (orig.exists /\ ~force) =>
        /\ pc \in {"start", "failed"}
        /\ pc = "failed" => error = "DestinationExists"
        /\ reqs = <<>>
        /\ cnns = {}
        /\ file = orig

C3_Witness ==
    orig.exists /\ ~force /\ pc = "failed" /\ error = "DestinationExists"

\* C4: when the range probe answers with a status other than 206 the
\* download fails with RangeUnsupported, no chunk fetch is submitted or
\* requested, and the destination is as it was before the run.
C4_RangeUnsupported ==
    (range_status # 0 /\ range_status # 206) =>
        /\ pc = "failed"
        /\ error = "RangeUnsupported"
        /\ ftr = <<>>
        /\ ChunkRequests = {}
        /\ file = orig

C4_Witness ==
    range_status = 200 /\ pc = "failed" /\ orig.exists /\ force

\* C5: in every state in which some chunk fetch has raised, the
\* destination is as it was before the run and the download is not, and
\* never becomes, successful: the main thread never reaches the file.
C5_FailedFetchWritesNothing ==
    (\E t \in 1..Len(ftr) : ftr[t].st = "raised") =>
        /\ file = orig
        /\ pc \notin {"truncate", "append", "done"}

C5_Witness ==
    /\ pc = "failed"
    /\ error = "FetchError"
    /\ orig.exists
    /\ \E t \in 1..Len(ftr) : ftr[t].st = "raised"
    /\ \E t \in 1..Len(ftr) : ftr[t].st = "ok" /\ ftr[t].status = 206

\* C6: a fetch error is reported only when every chunk of the plan has
\* been submitted, requested and has run to its end; none is skipped.
C6_FailAfterCollect ==
    (pc = "failed" /\ error = "FetchError") =>
        /\ Len(ftr) = Len(chunk_args)
        /\ \A t \in 1..Len(ftr) : Finished(ftr[t])
        /\ Cardinality(ChunkRequests) = Len(chunk_args)

C6_Witness ==
    /\ pc = "failed"
    /\ error = "FetchError"
    /\ Len(ftr) = 3
    /\ Cardinality(observed) = 1
    /\ \A t \in 1..Len(ftr) : Finished(ftr[t])

\* C7: at most dop chunk fetches execute at the same time.
C7_BoundedConcurrency == Cardinality(Running) <= dop

C7_Witness ==
    /\ Len(ftr) = 3
    /\ dop = 2
    /\ Cardinality(Running) = dop
    /\ Queued # {}

\* C8: for a source of size 0, once both probes have succeeded, no chunk
\* is planned, submitted or requested, the download does not fail, and it
\* ends with the destination existing and empty.
C8_EmptySource ==
    (ValidConfig /\ remote = 0 /\ size = 0) =>
        /\ pc \in {"plan", "collect", "truncate", "append", "done"}
        /\ error = "none"
        /\ chunk_args = <<>>
        /\ ftr = <<>>
        /\ ChunkRequests = {}
        /\ pc = "done" => file = [exists |-> TRUE, content |-> <<>>]

C8_Witness ==
    /\ ValidConfig
    /\ remote = 0
    /\ pc = "done"
    /\ orig.exists
    /\ file = [exists |-> TRUE, content |-> <<>>]

\* C9: when chunkSize <= 0 or maxChunks <= 0 no plan is produced, no chunk
\* fetch is submitted, and the download fails without creating or
\* truncating the destination.
C9_InvalidPlanParameters ==
    (chunk_size <= 0 \/ max_chunks <= 0) =>
        /\ chunk_args = <<>>
        /\ ftr = <<>>
        /\ pc \notin {"truncate", "append", "done"}
        /\ file = orig

\* C10: a chunk response whose status is not 206 is a fetch error: its
\* body is no result, the download does not succeed and the destination
\* is not written.
C10_Non206IsFetchError ==
    \A t \in 1..Len(ftr) :
        (ftr[t].st = "ok" /\ ftr[t].status # 206) =>
            /\ \A k \in 1..Len(results) : results[k][1] # chunk_args[t][3]
            /\ pc \notin {"truncate", "append", "done"}
            /\ file = orig

\* C11: when the HEAD response has a status other than 200, or no or a
\* non-numeric Content-length, the download fails with SizeUnavailable, no
\* chunk is planned or fetched and the destination is as before the run.
C11_SizeUnavailable ==
    (head_resp.status # 0 /\ (head_resp.status # 200 \/ head_resp.length # "numeric")) =>
        /\ pc = "failed"
        /\ error = "SizeUnavailable"
        /\ chunk_args = <<>>
        /\ ftr = <<>>
        /\ ChunkRequests = {}
        /\ file = orig

\* C12: every step that creates, truncates or appends to the destination
\* is taken in a state where every chunk of the plan has been submitted
\* and has finished; no fetch is queued or running.
C12_WritesAfterAllFetches ==
    [][file' # file =>
         /\ Len(ftr) = Len(chunk_args)
         /\ \A t \in 1..Len(ftr) : Finished(ftr[t])
         /\ Running = {} /\ Queued = {}]_vars

C12_Witness ==
    /\ pc = "append"
    /\ Len(ftr) = 3
    /\ Len(sorted_parts) = 1
    /\ file.content # <<>>

HeadRequests == {k \in 1..Len(reqs) : Len(reqs[k]) = 1}

ProbeRequests == {k \in 1..Len(reqs) : Len(reqs[k]) = 2}

\* C13 as claimed: the size probe (HEAD) is issued before the range probe,
\* the range probe only after the size probe has succeeded, and a failed
\* size probe is followed by no range probe.
C13_SizeProbeFirst ==
    /\ \A k \in ProbeRequests : size # -1 /\ \E j \in HeadRequests : j < k
    /\ (HeadRequests # {} /\ size = -1) => ProbeRequests = {}

\* C13 as amended: the range probe is issued before the size probe, the
\* size probe only after the range probe was answered 206, and a failed
\* range probe is followed by no size probe.
C13_RangeProbeFirst ==
    /\ \A k \in HeadRequests : range_status = 206 /\ \E j \in ProbeRequests : j < k
    /\ (ProbeRequests # {} /\ range_status # 206) => HeadRequests = {}
    /\ Cardinality(HeadRequests) <= 1 /\ Cardinality(ProbeRequests) <= 1

C13_Witness ==
    /\ pc = "failed"
    /\ error = "SizeUnavailable"
    /\ HeadRequests = {2}
    /\ ProbeRequests = {1}

\* C14: for positive parameters the specs are in ascending order, the
\* first starts at 0, each next one starts at the previous inclusive end
\* + 1, and together they cover exactly [0, min(fileSize, chunkSize*maxChunks)).
C14_ContiguousCover ==
    (ValidConfig /\ Planned /\ size > 0) =>
        LET n == Len(chunk_args)
        IN  /\ n > 0
            /\ chunk_args[1][1] = 0
            /\ \A k \in 1..(n - 1) : chunk_args[k + 1][1] = chunk_args[k][2] + 1
            /\ \A k \in 1..n : chunk_args[k][1] <= chunk_args[k][2]
            /\ UNION {chunk_args[k][1]..chunk_args[k][2] : k \in 1..n}
                 = 0..(Min(size, chunk_size * max_chunks) - 1)

\* Short of the last end the plan is as claimed: ascending, gapless, not
\* overlapping, and covering at least the prefix.
PlanContiguous ==
    (ValidConfig /\ Planned /\ size > 0) =>
        LET n == Len(chunk_args)
        IN  /\ n > 0
            /\ chunk_args[1][1] = 0
            /\ \A k \in 1..(n - 1) : chunk_args[k + 1][1] = chunk_args[k][2] + 1
            /\ chunk_args[n][2] \in {Min(size, chunk_size * max_chunks) - 1, size}

\* C15: every result that reaches assembly has a payload of exactly
\* byteEndInclusive - byteStart + 1 bytes of the spec it was fetched for.
C15_PayloadLength ==
    ValidConfig =>
        \A t \in observed :
            ftr[t].st = "ok" =>
                Len(ftr[t].content) = chunk_args[t][2] - chunk_args[t][1] + 1

RECURSIVE Flatten(_)
\* the payloads of a sequence of (key, payload) parts, one after the other
Flatten(parts) ==
    IF parts = <<>> THEN <<>> ELSE parts[1][2] \o Flatten(Tail(parts))

RequestsFor(t) ==
    {k \in ChunkRequests : reqs[k][2] = chunk_args[t][1] /\ reqs[k][3] = chunk_args[t][2]}

\* C16: each planned chunk is requested at most once, and exactly once as
\* soon as its fetch has started; when the download reaches assembly there
\* is one result per planned chunk, each from a different chunk, and the
\* destination receives each result's payload exactly once.
C16_ExactlyOnce ==
    /\ Cardinality(ChunkRequests) = Cardinality({t \in 1..Len(ftr) : ftr[t].st # "queued"})
    /\ \A t \in 1..Len(ftr) :
         Cardinality(RequestsFor(t)) = IF ftr[t].st = "queued" THEN 0 ELSE 1
    /\ pc \in {"truncate", "append", "done"} =>
         /\ Len(results) = Len(chunk_args)
         /\ \A t \in 1..Len(chunk_args) :
              Cardinality({k \in 1..Len(results) : results[k][1] = chunk_args[t][3]}) = 1
    /\ pc \in {"append", "done"} =>
         file.content \o Flatten(sorted_parts) = Flatten(Sorted(results))
    /\ pc = "done" => sorted_parts = <<>>

C16_Witness ==
    /\ pc = "done"
    /\ Len(chunk_args) = 3
    /\ Len(results) = 3
    /\ results[1][1] > results[2][1]

\* C17: connection t is open exactly while fetch t runs (each fetch has its
\* own, closed when the fetch ends by a read, a failed request or a failed
\* read), and no chunk-fetch connection is open once the download is done
\* or has failed.
C17_ConnectionsClosed ==
    /\ cnns \ {0} = Running
    /\ pc \in {"done", "failed"} => cnns \ {0} = {}

C17_Witness ==
    /\ pc = "failed"
    /\ error = "FetchError"
    /\ Len(ftr) = 3
    /\ \E t \in 1..Len(ftr) : ftr[t].st = "raised"
    /\ \E t \in 1..Len(ftr) : ftr[t].st = "ok"
    /\ cnns = {0}

\* the spec's phases, in order: Idle, Probing, Planning, Fetching,
\* Assembling, and the terminal ones (Done; Failed, which is Aborted when
\* reached from Probing)
PhaseRank(p) ==
    CASE p = "start" -> 0
      [] p \in {"range", "size"} -> 1
      [] p = "plan" -> 2
      [] p \in {"submit", "collect", "shutdown"} -> 3
      [] p \in {"truncate", "append"} -> 4
      [] p \in {"done", "failed"} -> 5

\* C18: the phase never goes back, a phase once left is not entered
\* again, neither probe is ever issued twice, and after Done or Failed
\* (Aborted) nothing happens: no request, no connection, no write, no
\* change of phase.
C18_ForwardOnly ==
    [][/\ PhaseRank(pc') >= PhaseRank(pc)
       /\ pc \in {"done", "failed"} =>
            /\ pc' = pc
            /\ reqs' = reqs
            /\ cnns' = cnns
            /\ file' = file
            /\ ftr' = ftr
       /\ Cardinality(HeadRequests') <= 1
       /\ Cardinality(ProbeRequests') <= 1]_vars

C18_Witness ==
    /\ pc = "done"
    /\ Len(ftr) = 2
    /\ file.content # <<>>

\* C19: under FairSpec every run ends in Done or Failed.
C19_Terminates == <>(pc \in {"done", "failed"})

C19_Witness ==
    /\ pc = "failed"
    /\ error = "FetchError"
    /\ dop = 2
    /\ Len(chunk_args) = 3
    /\ Len(ftr) = 3
    /\ \A t \in 1..Len(ftr) : Finished(ftr[t])
    /\ \E t \in 1..Len(ftr) : ftr[t].st = "raised"
====
